---- MODULE Spec2Model ----
(***************************************************************************)
(* A model of servitor: the Connection abstraction over the ASGI protocol, *)
(* the HttpResponse / JsonResponse values, the Router and the Servitor     *)
(* application composer.                                                   *)
(*                                                                         *)
(* Representation.  Text (Python str) is a sequence of Unicode code points *)
(* and bytes is a sequence of byte values, so that str.encode() is a real  *)
(* conversion.  Enumerations of the protocol (event types, methods, scope  *)
(* types, exception class names) are TLA+ strings.  A coroutine of the     *)
(* library is an operator over a "world" record                            *)
(*     [conn |-> the Connection object, sent |-> the events handed to      *)
(*      asgi_send so far, exc |-> the exception being raised, if any,      *)
(*      invoked |-> the application callables invoked so far]              *)
(* and returns the world after the call.                                   *)
(***************************************************************************)
EXTENDS Integers, Sequences, FiniteSets, TLC

VARIABLES
    conn,       \* the Connection object of the exchange
    asgi_sent,  \* outbound events, in the order asgi_send received them
    last,       \* the last operation performed on the connection and its outcome
    ncalls,     \* number of operations performed so far
    routers,    \* the stages given to Servitor, in order, of the composed app
    pc,         \* position of asgi_app: "idle", "stage", "returned", "raised"
    idx,        \* index of the stage asgi_app is running
    invoked,    \* the application callables invoked so far, in order
    gens,       \* the body_iter() generator objects created so far
    nreceived,  \* number of events asgi_receive has delivered
    router,     \* a Router object during registration
    tasks       \* the coroutines calling send() concurrently on the connection

vars == <<conn, asgi_sent, last, ncalls, routers, pc, idx, invoked, gens, nreceived,
          router, tasks>>

(***************************************************************************)
(* Bounds of the model.                                                    *)
(***************************************************************************)
MaxCalls == 4       \* operations issued on one connection

(***************************************************************************)
(* Text constants, as code points.                                         *)
(***************************************************************************)
TxtContentLength == <<99, 111, 110, 116, 101, 110, 116, 45, 108, 101, 110, 103, 116, 104>>
TxtContentType == <<99, 111, 110, 116, 101, 110, 116, 45, 116, 121, 112, 101>>
TxtApplicationJson == <<97, 112, 112, 108, 105, 99, 97, 116, 105, 111, 110, 47, 106, 115, 111, 110>>
TxtLocation == <<108, 111, 99, 97, 116, 105, 111, 110>>
TxtSetCookie == <<83, 101, 116, 45, 67, 111, 111, 107, 105, 101>>
TxtNotFoundLower == <<78, 111, 116, 32, 102, 111, 117, 110, 100>>
TxtNotFoundUpper == <<78, 111, 116, 32, 70, 111, 117, 110, 100>>
TxtRedirectingTo == <<114, 101, 100, 105, 114, 101, 99, 116, 105, 110, 103, 32, 116, 111, 58, 32>>
TxtXTrace == <<120, 45, 116, 114, 97, 99, 101>>
TxtOne == <<49>>
TxtSid == <<115, 105, 100>>

(***************************************************************************)
(* Python values.                                                          *)
(***************************************************************************)
\* Optional[int] absent.  start_resp tests the status code for truthiness, so
\* an absent code and the code 0 take the same branch.
None == 0

Str(v) == [t |-> "str", v |-> v]
Bytes(v) == [t |-> "bytes", v |-> v]

\* str.encode(): UTF-8, for code points below 2048.
encode_char(cp) ==
    IF cp < 128 THEN <<cp>> ELSE <<192 + (cp \div 64), 128 + (cp % 64)>>

RECURSIVE encode(_)
encode(s) == IF s = <<>> THEN <<>> ELSE encode_char(Head(s)) \o encode(Tail(s))

\* str(n) for n >= 0: the decimal digits of n.
RECURSIVE str(_)
str(n) == IF n < 10 THEN <<48 + n>> ELSE str(n \div 10) \o <<48 + (n % 10)>>

\* dict[key] = value on a dict kept as a sequence of <<key, value>> pairs.
dict_set(d, key, value) ==
    IF \E i \in 1..Len(d) : d[i][1] = key
    THEN [i \in 1..Len(d) |-> IF d[i][1] = key THEN <<key, value>> ELSE d[i]]
    ELSE Append(d, <<key, value>>)

\* Optional[Mapping]: None, or a dict.
NoneMapping == [none |-> TRUE, items |-> <<>>]
Dict(items) == [none |-> FALSE, items |-> items]

NoExc == [cls |-> "", msg |-> ""]
Ok(W) == W.exc = NoExc
raise(W, cls, msg) == [W EXCEPT !.exc = [cls |-> cls, msg |-> msg]]

(***************************************************************************)
(* connection.py                                                           *)
(***************************************************************************)
Connection(scope) ==
    [ scope |-> scope,
      started |-> FALSE,
      finished |-> FALSE,
      resp_headers |-> <<>>,
      resp_cookies |-> <<>>,
      resp_status_code |-> None,
      http_body |-> <<>>,
      http_has_more_body |-> TRUE,
      http_received_body_length |-> 0 ]

type(c) == IF c.scope.type = "websocket" THEN "WebSocket" ELSE "HTTP"

\* The injected send handle: the hosting server takes the event.
asgi_send(W, event) == [W EXCEPT !.sent = Append(@, event)]

\* Headers.add appends; it never replaces.
put_resp_header(W, key, value) ==
    [W EXCEPT !.conn.resp_headers = Append(@, <<key, value>>)]

\* SimpleCookie.__setitem__: overwrite in place, or insert at the end.
put_resp_cookie(W, key, value) ==
    [W EXCEPT !.conn.resp_cookies = dict_set(@, key, value)]

\* Morsel.OutputString() of a cookie without attributes: key=value.
OutputString(cookie) == cookie[1] \o <<61>> \o cookie[2]

\* str.encode("ascii") of header text; the model's header text is ASCII.
encode_ascii(s) == encode(s)

start_resp_headers(c) ==
    [i \in 1..Len(c.resp_headers) |->
        <<encode_ascii(c.resp_headers[i][1]), encode_ascii(c.resp_headers[i][2])>>]
    \o [i \in 1..Len(c.resp_cookies) |->
        <<encode_ascii(TxtSetCookie), encode_ascii(OutputString(c.resp_cookies[i]))>>]

\* start_resp without its "already started" guard.
start_resp_unguarded(W) ==
    LET W1 == IF W.conn.resp_status_code = None
              THEN [W EXCEPT !.conn.resp_status_code = 200]
              ELSE W
        W2 == asgi_send(W1, [ type |-> "http.response.start",
                              status |-> W1.conn.resp_status_code,
                              headers |-> start_resp_headers(W1.conn) ])
    IN  [W2 EXCEPT !.conn.started = TRUE]

start_resp(W) ==
    IF W.conn.started
    THEN raise(W, "ValueError", "resp already started")
    ELSE LET W1 == IF W.conn.resp_status_code = None
                   THEN [W EXCEPT !.conn.resp_status_code = 200]
                   ELSE W
             W2 == asgi_send(W1, [ type |-> "http.response.start",
                                   status |-> W1.conn.resp_status_code,
                                   headers |-> start_resp_headers(W1.conn) ])
         IN  [W2 EXCEPT !.conn.started = TRUE]

\* finish with the commented-out WebSocket branch of line 174 in place of the
\* raise.
finish_ws_close(W) ==
    IF type(W.conn) = "HTTP"
    THEN IF W.conn.finished
         THEN raise(W, "ValueError", "Connection already finished")
         ELSE LET W1 == IF ~W.conn.started
                        THEN start_resp([W EXCEPT !.conn.resp_status_code = 204])
                        ELSE W
              IN  IF Ok(W1)
                  THEN [asgi_send(W1, [ type |-> "http.response.body",
                                        body |-> <<>>,
                                        more_body |-> FALSE ])
                           EXCEPT !.conn.finished = TRUE]
                  ELSE W1
    ELSE [asgi_send(W, [type |-> "websocket.close", code |-> 1000])
             EXCEPT !.conn.finished = TRUE]

\* finish starting the response with whatever status code is set.
finish_keeps_status(W) ==
    IF type(W.conn) = "HTTP"
    THEN IF W.conn.finished
         THEN raise(W, "ValueError", "Connection already finished")
         ELSE LET W1 == IF ~W.conn.started THEN start_resp(W) ELSE W
              IN  IF Ok(W1)
                  THEN [asgi_send(W1, [ type |-> "http.response.body",
                                        body |-> <<>>,
                                        more_body |-> FALSE ])
                           EXCEPT !.conn.finished = TRUE]
                  ELSE W1
    ELSE raise(W, "NotImplementedError", "")

finish(W) ==
    IF type(W.conn) = "HTTP"
    THEN IF W.conn.finished
         THEN raise(W, "ValueError", "Connection already finished")
         ELSE LET W1 == IF ~W.conn.started
                        THEN start_resp([W EXCEPT !.conn.resp_status_code = 204])
                        ELSE W
              IN  IF Ok(W1)
                  THEN [asgi_send(W1, [ type |-> "http.response.body",
                                        body |-> <<>>,
                                        more_body |-> FALSE ])
                           EXCEPT !.conn.finished = TRUE]
                  ELSE W1
    ELSE raise(W, "NotImplementedError", "")

\* _http_send setting content-length on every finishing send, started or not.
http_send_always_length(W, data, fin) ==
    LET W0 == IF fin THEN put_resp_header(W, TxtContentLength, str(Len(data))) ELSE W
        W1 == IF ~W.conn.started THEN start_resp(W0) ELSE W0
        W2 == IF Ok(W1)
              THEN asgi_send(W1, [ type |-> "http.response.body",
                                   body |-> data,
                                   more_body |-> TRUE ])
              ELSE W1
    IN  IF Ok(W2) /\ fin THEN finish(W2) ELSE W2

\* Connection._http_send
http_send(W, data, fin) ==
    LET W1 == IF ~W.conn.started
              THEN start_resp(IF fin
                              THEN put_resp_header(W, TxtContentLength, str(Len(data)))
                              ELSE W)
              ELSE W
        W2 == IF Ok(W1)
              THEN asgi_send(W1, [ type |-> "http.response.body",
                                   body |-> data,
                                   more_body |-> TRUE ])
              ELSE W1
    IN  IF Ok(W2) /\ fin THEN finish(W2) ELSE W2

\* send without its "connection closed" guard.
send_unguarded(W, data, fin) ==
    IF type(W.conn) = "HTTP"
    THEN http_send(W, IF data.t = "str" THEN encode(data.v) ELSE data.v, fin)
    ELSE raise(W, "NotImplementedError", "")

send(W, data, fin) ==
    IF W.conn.finished
    THEN raise(W, "ValueError", "No message can be sent when connection closed")
    ELSE IF type(W.conn) = "HTTP"
         THEN http_send(W, IF data.t = "str" THEN encode(data.v) ELSE data.v, fin)
         ELSE raise(W, "NotImplementedError", "")

(***************************************************************************)
(* response.py                                                             *)
(***************************************************************************)
HttpResponse(body, connection, status_code, headers) ==
    [ cls |-> "HttpResponse",
      body |-> body,
      connection |-> connection,
      status_code |-> status_code,
      headers |-> headers ]

\* HttpResponse.__await__.  connection is TRUE when a Connection is bound.
await_response(W, res) ==
    IF ~res.connection
    THEN raise(W, "ValueError", "No connection")
    ELSE LET W1 == [W EXCEPT !.conn.resp_status_code = res.status_code]
             items == res.headers.items
             RECURSIVE put_all(_, _)
             put_all(X, i) ==
                 IF i > Len(items) THEN X
                 ELSE put_all(put_resp_header(X, items[i][1], items[i][2]), i + 1)
             W2 == IF ~res.headers.none /\ items # <<>> THEN put_all(W1, 1) ELSE W1
         IN  send(W2, res.body, TRUE)

\* json.dumps on text and on flat dicts of text (printable ASCII, nothing
\* that needs escaping): "..." and {"k": "v", ...}.
json_dumps_str(s) == <<34>> \o s \o <<34>>

RECURSIVE json_dumps_items(_)
json_dumps_items(items) ==
    IF items = <<>> THEN <<>>
    ELSE json_dumps_str(items[1][1]) \o <<58, 32>> \o json_dumps_str(items[1][2])
         \o (IF Len(items) > 1 THEN <<44, 32>> ELSE <<>>)
         \o json_dumps_items(Tail(items))

json_dumps(data) ==
    IF data.j = "str" THEN json_dumps_str(data.v)
    ELSE <<123>> \o json_dumps_items(data.v) \o <<125>>

\* The keyword arguments of a call: each of headers / status_code is either
\* passed or left out.
Kwargs(has_headers, headers, has_status_code, status_code) ==
    [ has_headers |-> has_headers, headers |-> headers,
      has_status_code |-> has_status_code, status_code |-> status_code ]

\* JsonResponse.__init__.  kwargs.get("headers") is the caller's dict object
\* when one was passed: the item assignment then shows through kwargs.  When it
\* is None the assignment goes to a fresh local dict, which kwargs never sees.
JsonResponse(data, connection, kwargs) ==
    LET body == json_dumps(data)
        headers == IF kwargs.has_headers THEN kwargs.headers ELSE NoneMapping
        kwargs1 == IF headers.none
                   THEN kwargs
                   ELSE [kwargs EXCEPT !.headers =
                            Dict(dict_set(headers.items, TxtContentType, TxtApplicationJson))]
        r == HttpResponse(Str(body), connection,
                          IF kwargs1.has_status_code THEN kwargs1.status_code ELSE 200,
                          IF kwargs1.has_headers THEN kwargs1.headers ELSE NoneMapping)
    IN  [r EXCEPT !.cls = "JsonResponse"]

(***************************************************************************)
(* connection.py: reading the request body.                                *)
(*                                                                         *)
(* body_iter() is an async generator.  A generator object is a record      *)
(*   pc: "created" (not yet resumed), "receive" (suspended in await        *)
(*       self.asgi_receive()), "yield_body" (suspended at the yield of the *)
(*       buffered body), "yield_chunk" (suspended at the yield of a        *)
(*       chunk), "done" (ran to its end), "raised";                        *)
(*   req_body_length: its local variable;  yielded: what it yielded so far *)
(***************************************************************************)
TxtChunked == <<99, 104, 117, 110, 107, 101, 100>>
TxtTransferEncoding ==
    <<116, 114, 97, 110, 115, 102, 101, 114, 45, 101, 110, 99, 111, 100, 105, 110, 103>>

\* Connection.req_headers: the scope's header pairs, decoded; get() returns
\* the first value stored under the key.
req_headers(c) == c.scope.headers

headers_get(h, key, default) ==
    IF \E i \in 1..Len(h) : h[i][1] = key
    THEN h[CHOOSE i \in 1..Len(h) : h[i][1] = key /\ \A j \in 1..(i - 1) : h[j][1] # key][2]
    ELSE default

\* int(text) for text made of decimal digits.
RECURSIVE int(_)
int(s) == IF Len(s) = 1 THEN s[1] - 48
          ELSE 10 * int(SubSeq(s, 1, Len(s) - 1)) + (s[Len(s)] - 48)

Generator ==
    [pc |-> "created", req_body_length |-> None, yielded |-> <<>>, exc |-> NoExc,
     consumer |-> "app"]

gen_raise(c, g, msg) ==
    [conn |-> c, gen |-> [g EXCEPT !.pc = "raised", !.exc = [cls |-> "ValueError", msg |-> msg]]]

\* body_iter lines 223-226: the head of the while loop, up to the await.
body_iter_loop(c, g) ==
    IF c.http_has_more_body
    THEN IF g.req_body_length # None /\ c.http_received_body_length > g.req_body_length
         THEN gen_raise(c, g, "body is longer than declared")
         ELSE [conn |-> c, gen |-> [g EXCEPT !.pc = "receive"]]
    ELSE [conn |-> c, gen |-> [g EXCEPT !.pc = "done"]]

\* body_iter lines 218-222, then the loop.  A chunked request has no length
\* (None); None and 0 are both false in the test of line 224.
body_iter_length(c, g) ==
    LET n == IF headers_get(req_headers(c), TxtTransferEncoding, <<>>) # TxtChunked
             THEN int(headers_get(req_headers(c), TxtContentLength, <<48>>))
             ELSE None
    IN  body_iter_loop(c, [g EXCEPT !.req_body_length = n])

\* __anext__ that never yields the buffered body.
body_iter_anext_no_buffer(c, g) ==
    IF g.pc = "created"
    THEN IF type(c) # "HTTP"
         THEN gen_raise(c, g, "connection type is not HTTP")
         ELSE IF c.http_received_body_length > 0 /\ c.http_has_more_body
         THEN gen_raise(c, g, "body iter is already started and is not finished")
         ELSE body_iter_length(c, g)
    ELSE IF g.pc = "yield_body"
    THEN body_iter_length(c, g)
    ELSE body_iter_loop(c, g)

\* __anext__ on a generator suspended at a yield, or not yet started.
body_iter_anext(c, g) ==
    IF g.pc = "created"
    THEN IF type(c) # "HTTP"
         THEN gen_raise(c, g, "connection type is not HTTP")
         ELSE IF c.http_received_body_length > 0 /\ c.http_has_more_body
         THEN gen_raise(c, g, "body iter is already started and is not finished")
         ELSE IF c.http_received_body_length > 0 /\ ~c.http_has_more_body
         THEN [conn |-> c,
               gen |-> [g EXCEPT !.pc = "yield_body", !.yielded = Append(@, c.http_body)]]
         ELSE body_iter_length(c, g)
    ELSE IF g.pc = "yield_body"
    THEN body_iter_length(c, g)
    ELSE body_iter_loop(c, g)

\* body_iter lines 226-238: asgi_receive() returned `message`.
body_iter_receive(c, g, message) ==
    IF message.type = "http.disconnect"
    THEN gen_raise(c, g, "Disconnected")
    ELSE IF message.type # "http.request"
    THEN body_iter_loop(c, g)
    ELSE LET chunk == IF "body" \in DOMAIN message THEN message.body ELSE Bytes(<<>>)
             more == IF "more_body" \in DOMAIN message THEN message.more_body ELSE FALSE
         IN  IF chunk.t # "bytes"
             THEN gen_raise(c, g, "Chunk is not bytes")
             ELSE [conn |-> [c EXCEPT !.http_body = @ \o chunk.v,
                                      !.http_has_more_body = more,
                                      !.http_received_body_length = @ + Len(chunk.v)],
                   gen |-> [g EXCEPT !.pc = "yield_chunk",
                                     !.yielded = Append(@, chunk.v)]]

(***************************************************************************)
(* routing.py                                                              *)
(***************************************************************************)
\* Optional[set of method names]: None, or a set.
NoneMethods == [none |-> TRUE, set |-> {}]
Methods(S) == [none |-> FALSE, set |-> S]

\* A handler function object: its __name__ and its identity.
Handler(name, id) == [name |-> name, id |-> id]

\* werkzeug's Rule: a rule with GET also answers HEAD.
Rule(string, endpoint, methods) ==
    [ rule |-> string,
      endpoint |-> endpoint,
      methods |-> IF methods.none THEN methods
                  ELSE Methods(methods.set \cup (IF "GET" \in methods.set THEN {"HEAD"} ELSE {})) ]

\* Router.__init__
Router == [url_map |-> <<>>, endpoint_to_handler |-> <<>>, exc |-> NoExc]

\* add_route binding the name to the new handler whatever it was bound to.
add_route_overwrite(R, rule_string, handler, name, methods) ==
    LET name1 == IF name = "" THEN handler.name ELSE name
        e2h == R.endpoint_to_handler
    IN  [R EXCEPT !.url_map = Append(@, Rule(rule_string, name1, methods)),
                  !.endpoint_to_handler = [n \in DOMAIN e2h \cup {name1} |->
                                              IF n = name1 THEN handler ELSE e2h[n]]]

\* add_route returning early when the name is already bound to the handler.
add_route_once(R, rule_string, handler, name, methods) ==
    LET name1 == IF name = "" THEN handler.name ELSE name
        e2h == R.endpoint_to_handler
    IN  IF name1 \in DOMAIN e2h /\ e2h[name1].id # handler.id
        THEN [R EXCEPT !.exc = [cls |-> "ValueError", msg |-> "Duplicated route name"]]
        ELSE IF name1 \in DOMAIN e2h
        THEN R
        ELSE [R EXCEPT !.url_map = Append(@, Rule(rule_string, name1, methods)),
                       !.endpoint_to_handler = [n \in DOMAIN e2h \cup {name1} |->
                                                   IF n = name1 THEN handler ELSE e2h[n]]]

\* Router.add_route.  name = "" stands for a name that was not given.
add_route(R, rule_string, handler, name, methods) ==
    LET name1 == IF name = "" THEN handler.name ELSE name
        e2h == R.endpoint_to_handler
    IN  IF name1 \in DOMAIN e2h /\ e2h[name1].id # handler.id
        THEN [R EXCEPT !.exc = [cls |-> "ValueError", msg |-> "Duplicated route name"]]
        ELSE [R EXCEPT !.url_map = Append(@, Rule(rule_string, name1, methods)),
                       !.endpoint_to_handler =
                           [n \in DOMAIN e2h \cup {name1} |->
                               IF n = name1 THEN handler ELSE e2h[n]]]

\* Router.route(rule, methods, name)(handler)
route(R, rule, methods, name, handler) ==
    LET methods1 == IF ~methods.none /\ methods.set # {} /\ "OPTIONS" \notin methods.set
                    THEN Methods(methods.set \cup {"OPTIONS"})
                    ELSE methods
    IN  add_route(R, rule, handler, name, methods1)

\* The routing library's matching of one rule string against a path: a
\* literal rule matches itself; a rule ending in a <variable> matches its
\* prefix followed by one non-empty segment.
rule_matches(string, path) ==
    IF \E i \in 1..Len(string) : string[i] = 60
    THEN LET lt == CHOOSE i \in 1..Len(string) :
                       string[i] = 60 /\ \A j \in 1..(i - 1) : string[j] # 60
             prefix == SubSeq(string, 1, lt - 1)
         IN  /\ Len(path) > Len(prefix)
             /\ SubSeq(path, 1, Len(prefix)) = prefix
             /\ \A j \in (Len(prefix) + 1)..Len(path) : path[j] # 47
    ELSE string = path

TxtHost == <<104, 111, 115, 116>>
TxtHttp == <<104, 116, 116, 112>>
TxtWs == <<119, 115>>

\* MapAdapter.match(return_rule=True, method=scope.get("method")) on the
\* binding get_url_binding_for_connection builds.  Outcomes, in the library's
\* order: the first rule matching path and method; a redirect to path + "/"
\* when a rule for that path accepts the method; MethodNotAllowed when rules
\* match the path under other methods; WebsocketMismatch for a websocket
\* binding; NotFound.
match(R, c) ==
    LET path == c.scope.path
        method == IF c.scope.method = "" THEN "GET" ELSE c.scope.method
        websocket == c.scope.scheme = TxtWs
        rules == R.url_map
        allows(r) == r.methods.none \/ method \in r.methods.set
        exact == {i \in 1..Len(rules) : rule_matches(rules[i].rule, path)}
        slash == {i \in 1..Len(rules) : rule_matches(rules[i].rule, path \o <<47>>)}
        hit == {i \in exact : allows(rules[i]) /\ ~websocket}
        new_url == c.scope.scheme \o <<58, 47, 47>>
                       \o headers_get(req_headers(c), TxtHost, <<>>) \o path \o <<47>>
    IN  IF hit # {}
        THEN [outcome |-> "match", rule |-> rules[CHOOSE i \in hit : \A j \in hit : i <= j],
              new_url |-> <<>>]
        ELSE IF \E i \in slash : allows(rules[i]) /\ ~websocket
        THEN [outcome |-> "RequestRedirect", rule |-> <<>>, new_url |-> new_url]
        ELSE IF \E i \in exact \cup slash : ~allows(rules[i])
        THEN [outcome |-> "MethodNotAllowed", rule |-> <<>>, new_url |-> <<>>]
        ELSE IF websocket /\ exact \cup slash # {}
        THEN [outcome |-> "WebsocketMismatch", rule |-> <<>>, new_url |-> <<>>]
        ELSE [outcome |-> "NotFound", rule |-> <<>>, new_url |-> <<>>]

\* Router.__call__ answering NotFound with status 404.
router_call_not_found_404(W, R) ==
    LET m == match(R, W.conn)
    IN  IF m.outcome = "RequestRedirect"
        THEN [W |-> send(put_resp_header([W EXCEPT !.conn.resp_status_code = 302],
                                         TxtLocation, m.new_url),
                         Str(TxtRedirectingTo \o m.new_url), TRUE),
              handler |-> ""]
        ELSE IF m.outcome = "MethodNotAllowed"
        THEN [W |-> send([W EXCEPT !.conn.resp_status_code = 405], Bytes(<<>>), TRUE),
              handler |-> ""]
        ELSE IF m.outcome = "NotFound"
        THEN [W |-> send([W EXCEPT !.conn.resp_status_code = 404],
                         Bytes(TxtNotFoundUpper), TRUE),
              handler |-> ""]
        ELSE IF m.outcome = "WebsocketMismatch"
        THEN [W |-> raise(W, "WebsocketMismatch", ""), handler |-> ""]
        ELSE [W |-> W, handler |-> R.endpoint_to_handler[m.rule.endpoint].name]

\* Router.__call__ treating MethodNotAllowed like a match of the first rule
\* for the path.
router_call_any_method(W, R) ==
    LET m == match(R, W.conn)
        first == CHOOSE i \in 1..Len(R.url_map) :
                     rule_matches(R.url_map[i].rule, W.conn.scope.path)
    IN  IF m.outcome = "RequestRedirect"
        THEN [W |-> send(put_resp_header([W EXCEPT !.conn.resp_status_code = 302],
                                         TxtLocation, m.new_url),
                         Str(TxtRedirectingTo \o m.new_url), TRUE),
              handler |-> ""]
        ELSE IF m.outcome = "MethodNotAllowed"
                /\ \E i \in 1..Len(R.url_map) :
                       rule_matches(R.url_map[i].rule, W.conn.scope.path)
        THEN [W |-> W, handler |-> R.endpoint_to_handler[R.url_map[first].endpoint].name]
        ELSE IF m.outcome = "MethodNotAllowed"
        THEN [W |-> send([W EXCEPT !.conn.resp_status_code = 405], Bytes(<<>>), TRUE),
              handler |-> ""]
        ELSE IF m.outcome = "NotFound"
        THEN [W |-> send(W, Bytes(TxtNotFoundUpper), TRUE), handler |-> ""]
        ELSE IF m.outcome = "WebsocketMismatch"
        THEN [W |-> raise(W, "WebsocketMismatch", ""), handler |-> ""]
        ELSE [W |-> W, handler |-> R.endpoint_to_handler[m.rule.endpoint].name]

\* Router.__call__ up to the point where it awaits the handler: `handler` is
\* "" when the router answered by itself.
router_call(W, R) ==
    LET m == match(R, W.conn)
    IN  IF m.outcome = "RequestRedirect"
        THEN [W |-> send(put_resp_header([W EXCEPT !.conn.resp_status_code = 302],
                                         TxtLocation, m.new_url),
                         Str(TxtRedirectingTo \o m.new_url), TRUE),
              handler |-> ""]
        ELSE IF m.outcome = "MethodNotAllowed"
        THEN [W |-> send([W EXCEPT !.conn.resp_status_code = 405], Bytes(<<>>), TRUE),
              handler |-> ""]
        ELSE IF m.outcome = "NotFound"
        THEN [W |-> send(W, Bytes(TxtNotFoundUpper), TRUE), handler |-> ""]
        ELSE IF m.outcome = "WebsocketMismatch"
        THEN [W |-> raise(W, "WebsocketMismatch", ""), handler |-> ""]
        ELSE [W |-> W, handler |-> R.endpoint_to_handler[m.rule.endpoint].name]

\* Router.__call__ from the handler's return on.
router_return(W, res) ==
    IF res.cls \in {"HttpResponse", "JsonResponse"}
    THEN await_response(W, [res EXCEPT !.connection = TRUE])
    ELSE W

(***************************************************************************)
(* application.py                                                          *)
(*                                                                         *)
(* A stage given to Servitor is a Router or any other callable taking the  *)
(* connection.  asgi_app runs until it returns, raises, or enters          *)
(* application code (a handler, a callable stage), whose steps are the     *)
(* application's own.                                                      *)
(***************************************************************************)
RouterStage(R) == [kind |-> "router", router |-> R, name |-> ""]
CallableStage(name) == [kind |-> "callable", router |-> Router, name |-> name]

\* asgi_app after the for loop, leaving the status code alone.
asgi_app_tail_no_404(W) ==
    IF W.conn.started
    THEN finish(W)
    ELSE send(W, Str(TxtNotFoundLower), TRUE)

\* asgi_app after the for loop, without the finish() of a started response.
asgi_app_tail_no_finish(W) ==
    IF W.conn.started
    THEN W
    ELSE send([W EXCEPT !.conn.resp_status_code = 404], Str(TxtNotFoundLower), TRUE)

\* asgi_app after the for loop.
asgi_app_tail(W) ==
    IF W.conn.started
    THEN finish(W)
    ELSE send([W EXCEPT !.conn.resp_status_code = 404], Str(TxtNotFoundLower), TRUE)

Outcome(W, i) ==
    [W |-> W, pc |-> IF Ok(W) THEN "returned" ELSE "raised", idx |-> i]

\* A call made by asgi_app or by a router, with the connection's finished
\* flag at the time of the call.
Invoke(W, i, callee) ==
    [W EXCEPT !.invoked = Append(@, [stage |-> i, callee |-> callee,
                                     finished |-> W.conn.finished])]

RECURSIVE asgi_app_loop(_, _, _)

\* asgi_app just after stage i returned, without the test of conn.finished.
asgi_app_after_no_test(W, rs, i) ==
    IF ~Ok(W) THEN Outcome(W, i)
    ELSE asgi_app_loop(W, rs, i + 1)

\* asgi_app just after stage i returned (or raised).
asgi_app_after(W, rs, i) ==
    IF ~Ok(W) THEN Outcome(W, i)
    ELSE IF W.conn.finished THEN Outcome(W, i)
    ELSE asgi_app_loop(W, rs, i + 1)

\* asgi_app about to run stage i.
asgi_app_loop(W, rs, i) ==
    IF i > Len(rs) THEN Outcome(asgi_app_tail(W), i)
    ELSE IF rs[i].kind = "callable"
    THEN [W |-> Invoke(W, i, rs[i].name), pc |-> "stage", idx |-> i]
    ELSE LET W0 == Invoke(W, i, "Router")
             r == router_call(W0, rs[i].router)
         IN  IF r.handler # ""
             THEN [W |-> Invoke(r.W, i, r.handler), pc |-> "stage", idx |-> i]
             ELSE asgi_app_after(r.W, rs, i)

(***************************************************************************)
(* The state machine, part 1: one Connection driven call by call, the way  *)
(* main.py's first two entry points use it.  The caller may go on after a  *)
(* failed call.                                                            *)
(***************************************************************************)
World == [conn |-> conn, sent |-> asgi_sent, exc |-> NoExc, invoked |-> invoked]

Scope(ty, method, path, headers) ==
    [ type |-> ty, method |-> method, path |-> path, headers |-> headers,
      scheme |-> IF ty = "websocket" THEN TxtWs ELSE TxtHttp ]

\* What the operation `op` with argument `arg` made of the world.  `pre` and
\* `nsent` keep the connection and the number of events from before the call.
Commit(op, arg, W) ==
    /\ conn' = W.conn
    /\ asgi_sent' = W.sent
    /\ invoked' = W.invoked
    /\ last' = [op |-> op, arg |-> arg, exc |-> W.exc, pre |-> conn, nsent |-> Len(asgi_sent)]
    /\ ncalls' = ncalls + 1

NoCall(c) == [op |-> "", arg |-> <<>>, exc |-> NoExc, pre |-> c, nsent |-> 0]

SendData == {Bytes(<<>>), Bytes(<<97, 98>>), Str(<<233>>)}
HeaderItems == {<<TxtXTrace, TxtOne>>}
StatusCodes == {201, 404}
JsonData == {[j |-> "obj", v |-> <<(<<(<<104, 105>>), (<<121, 111>>)>>)>>]}
NoKwargs == Kwargs(FALSE, NoneMapping, FALSE, 200)
Responses ==
    { HttpResponse(Bytes(<<97, 98>>), TRUE, 201, NoneMapping),
      HttpResponse(Str(<<233>>), TRUE, 200, Dict(<<(<<TxtXTrace, TxtOne>>)>>)) }
    \cup { JsonResponse(d, TRUE, NoKwargs) : d \in JsonData }
    \cup { JsonResponse(d, TRUE, Kwargs(TRUE, Dict(<<(<<TxtXTrace, TxtOne>>)>>), FALSE, 200)) :
               d \in JsonData }

AppUnused ==
    /\ routers = <<>> /\ pc = "idle" /\ idx = 0 /\ invoked = <<>>

BodyUnused ==
    /\ gens = <<>> /\ nreceived = 0

RegUnused ==
    /\ router = Router

ConcUnused ==
    /\ tasks = <<>>

Init ==
    /\ \E ty \in {"http", "websocket"} : conn = Connection(Scope(ty, "GET", <<47>>, <<>>))
    /\ asgi_sent = <<>>
    /\ last = NoCall(conn)
    /\ ncalls = 0
    /\ AppUnused
    /\ BodyUnused
    /\ RegUnused
    /\ ConcUnused

Send ==
    /\ ncalls < MaxCalls
    /\ \E data \in SendData, fin \in BOOLEAN :
           Commit("send", [data |-> data, fin |-> fin], send(World, data, fin))
    /\ UNCHANGED <<routers, pc, idx, gens, nreceived, router, tasks>>

Finish ==
    /\ ncalls < MaxCalls
    /\ Commit("finish", <<>>, finish(World))
    /\ UNCHANGED <<routers, pc, idx, gens, nreceived, router, tasks>>

StartResp ==
    /\ ncalls < MaxCalls
    /\ Commit("start_resp", <<>>, start_resp(World))
    /\ UNCHANGED <<routers, pc, idx, gens, nreceived, router, tasks>>

PutRespHeader ==
    /\ ncalls < MaxCalls
    /\ \E h \in HeaderItems : Commit("put_resp_header", h, put_resp_header(World, h[1], h[2]))
    /\ UNCHANGED <<routers, pc, idx, gens, nreceived, router, tasks>>

PutRespCookie ==
    /\ ncalls < MaxCalls
    /\ Commit("put_resp_cookie", <<TxtSid, TxtOne>>, put_resp_cookie(World, TxtSid, TxtOne))
    /\ UNCHANGED <<routers, pc, idx, gens, nreceived, router, tasks>>

\* conn.resp_status_code = code, as the callers of Connection do.
SetStatusCode ==
    /\ ncalls < MaxCalls
    /\ \E code \in StatusCodes :
           Commit("resp_status_code", code, [World EXCEPT !.conn.resp_status_code = code])
    /\ UNCHANGED <<routers, pc, idx, gens, nreceived, router, tasks>>

\* await HttpResponse(...) / await JsonResponse(..., conn)
AwaitResponse ==
    /\ ncalls < MaxCalls
    /\ \E res \in Responses : Commit("await", res, await_response(World, res))
    /\ UNCHANGED <<routers, pc, idx, gens, nreceived, router, tasks>>

Next ==
    \/ Send
    \/ Finish
    \/ StartResp
    \/ PutRespHeader
    \/ PutRespCookie
    \/ SetStatusCode
    \/ AwaitResponse

Spec == Init /\ [][Next]_vars

(***************************************************************************)
(* The state machine, part 2: one exchange served by a composed            *)
(* application.  The server calls asgi_app; application code (a matched    *)
(* handler, a callable stage) then works on the connection call by call    *)
(* and returns; an exception it gets propagates out of asgi_app, since     *)
(* neither the router nor the composer catches any.                        *)
(***************************************************************************)
MaxStages == 2      \* stages of a composed application
MaxAppCalls == 2    \* ncalls up to which application code still operates on the connection

TxtHelloX == <<47, 104, 101, 108, 108, 111, 47, 120>>
TxtHelloName == <<47, 104, 101, 108, 108, 111, 47, 60, 110, 97, 109, 101, 62>>
TxtItems == <<47, 105, 116, 101, 109, 115>>
TxtItemsSlash == <<47, 105, 116, 101, 109, 115, 47>>
TxtOther == <<47, 122, 122>>

\* main.py: @router.route("/hello/<name>") async def hello
HelloRouter == route(Router, TxtHelloName, NoneMethods, "", Handler("hello", 1))
\* a rule with a method set and a trailing slash
ItemsRouter == route(Router, TxtItemsSlash, Methods({"GET"}), "", Handler("items", 2))

StageOptions == {RouterStage(HelloRouter), RouterStage(ItemsRouter), CallableStage("stage")}

RECURSIVE StageLists(_)
StageLists(n) ==
    IF n = 0 THEN {<<>>}
    ELSE StageLists(n - 1)
         \cup {Append(l, st) : l \in {x \in StageLists(n - 1) : Len(x) = n - 1}, st \in StageOptions}

AppScopes ==
    { Scope("http", m, p, <<(<<TxtHost, <<104>>>>)>>) :
          m \in {"GET", "POST"}, p \in {TxtHelloX, TxtItems, TxtItemsSlash, TxtOther} }
    \cup
    { Scope("websocket", "", p, <<(<<TxtHost, <<104>>>>)>>) :
          p \in {TxtHelloX, TxtOther} }

NoneValue == [cls |-> "NoneType"]
KwHeaders == Kwargs(TRUE, Dict(<<(<<TxtXTrace, TxtOne>>)>>), FALSE, 200)
ReturnValues ==
    { NoneValue, HttpResponse(Bytes(<<97, 98>>), FALSE, 201, NoneMapping) }
    \cup { JsonResponse(d, FALSE, NoKwargs) : d \in JsonData }
    \cup { JsonResponse(d, FALSE, KwHeaders) : d \in JsonData }

InitApp ==
    /\ routers \in StageLists(MaxStages)
    /\ \E sc \in AppScopes : conn = Connection(sc)
    /\ asgi_sent = <<>>
    /\ last = NoCall(conn)
    /\ ncalls = 0
    /\ pc = "idle"
    /\ idx = 0
    /\ invoked = <<>>
    /\ BodyUnused
    /\ RegUnused
    /\ ConcUnused

\* asgi_app went on from W and got as far as r.
Resume(op, arg, r) ==
    /\ Commit(op, arg, r.W)
    /\ pc' = r.pc
    /\ idx' = r.idx
    /\ UNCHANGED <<routers, gens, nreceived, router, tasks>>

\* The server calls asgi_app(scope, receive, send).
AsgiApp ==
    /\ pc = "idle"
    /\ Resume("asgi_app", <<>>, asgi_app_loop(World, routers, 1))

\* Application code performed an operation on the connection.
AppCall(op, arg, W) ==
    /\ pc = "stage"
    /\ ncalls <= MaxAppCalls
    /\ Resume(op, arg, [W |-> W, pc |-> IF Ok(W) THEN "stage" ELSE "raised", idx |-> idx])

AppSend ==
    \E fin \in BOOLEAN :
        AppCall("send", [data |-> Bytes(<<97, 98>>), fin |-> fin],
                send(World, Bytes(<<97, 98>>), fin))

AppFinish == AppCall("finish", <<>>, finish(World))

AppStartResp == AppCall("start_resp", <<>>, start_resp(World))

AppPutRespHeader ==
    AppCall("put_resp_header", <<TxtXTrace, TxtOne>>, put_resp_header(World, TxtXTrace, TxtOne))

\* Application code returns: a handler to its router, which applies a
\* returned response, and the stage to asgi_app.
AppReturn ==
    /\ pc = "stage"
    /\ \E res \in (IF routers[idx].kind = "router" THEN ReturnValues ELSE {NoneValue}) :
          Resume("return", res,
                 asgi_app_after(IF routers[idx].kind = "router"
                                THEN router_return(World, res)
                                ELSE World,
                                routers, idx))

NextApp ==
    \/ AsgiApp
    \/ AppSend
    \/ AppFinish
    \/ AppStartResp
    \/ AppPutRespHeader
    \/ AppReturn

SpecApp == InitApp /\ [][NextApp]_vars

(***************************************************************************)
(* The state machine, part 3: reading the request body.  The application   *)
(* creates body_iter() generators and resumes them; the server delivers    *)
(* events through asgi_receive.  One task drives the connection: while a   *)
(* generator waits in asgi_receive nothing else runs.                      *)
\* b"".join(chunks)
RECURSIVE join(_)
join(chunks) == IF chunks = <<>> THEN <<>> ELSE Head(chunks) \o join(Tail(chunks))

\* The list comprehension of Connection.body: it asks the generator for the
\* next chunk until the generator awaits asgi_receive, ends or raises.
RECURSIVE body_collect(_, _)
body_collect(c, g) ==
    IF g.pc \in {"created", "yield_body", "yield_chunk"}
    THEN LET r == body_iter_anext(c, g) IN body_collect(r.conn, r.gen)
    ELSE [conn |-> c, gen |-> g]

\* What Connection.body returns once its generator g has ended.
body(g) == join(g.yielded)

(***************************************************************************)
MaxIters == 2       \* body_iter() generators created on one connection
MaxReceive == 3     \* events the server delivers

Chunks == {<<>>, <<97, 98>>, <<99, 100, 101>>}

Messages ==
    { [type |-> "http.request", body |-> Bytes(ch), more_body |-> m] :
          ch \in Chunks, m \in BOOLEAN }
    \cup { [type |-> "http.request", body |-> Bytes(<<97, 98>>)],
           [type |-> "http.request", body |-> Str(<<97>>), more_body |-> TRUE],
           [type |-> "http.disconnect"],
           [type |-> "lifespan.startup"] }

BodyScopes ==
    { Scope("http", "POST", <<47>>, h) :
          h \in { <<>>,
                  <<(<<TxtContentLength, <<49>>>>)>>,
                  <<(<<TxtContentLength, <<51>>>>)>>,
                  <<(<<TxtContentLength, <<49>>>>), (<<TxtTransferEncoding, TxtChunked>>)>> } }
    \cup { Scope("websocket", "", <<47>>, <<>>) }

InitBody ==
    /\ \E sc \in BodyScopes : conn = Connection(sc)
    /\ asgi_sent = <<>>
    /\ last = NoCall(conn)
    /\ ncalls = 0
    /\ AppUnused
    /\ BodyUnused
    /\ RegUnused
    /\ ConcUnused

BodyStep(op, arg, k, r) ==
    /\ conn' = r.conn
    /\ gens' = [gens EXCEPT ![k] = r.gen]
    /\ last' = [op |-> op, arg |-> arg, exc |-> r.gen.exc, pre |-> conn, nsent |-> Len(asgi_sent)]
    /\ ncalls' = ncalls + 1
    /\ UNCHANGED <<asgi_sent, routers, pc, idx, invoked, router, tasks>>

Idle == \A j \in 1..Len(gens) : gens[j].pc # "receive"

\* conn.body_iter(): a new generator object; none of its code runs yet.
BodyIter ==
    /\ Len(gens) < MaxIters
    /\ Idle
    /\ gens' = Append(gens, Generator)
    /\ last' = [op |-> "body_iter", arg |-> Len(gens) + 1, exc |-> NoExc, pre |-> conn,
                nsent |-> Len(asgi_sent)]
    /\ ncalls' = ncalls + 1
    /\ UNCHANGED <<conn, asgi_sent, routers, pc, idx, invoked, nreceived, router, tasks>>

\* await conn.body(): a new generator, driven by body() itself as far as it
\* goes without an event from the server.
Body ==
    /\ Len(gens) < MaxIters
    /\ Idle
    /\ LET r == body_collect(conn, [Generator EXCEPT !.consumer = "body"])
       IN  /\ conn' = r.conn
           /\ gens' = Append(gens, r.gen)
           /\ last' = [op |-> "body", arg |-> [gen |-> Len(gens) + 1, pc |-> "created"],
                       exc |-> r.gen.exc, pre |-> conn, nsent |-> Len(asgi_sent)]
    /\ ncalls' = ncalls + 1
    /\ UNCHANGED <<asgi_sent, routers, pc, idx, invoked, nreceived, router, tasks>>

\* The consumer asks generator k for its next chunk.
Anext ==
    /\ Idle
    /\ \E k \in 1..Len(gens) :
          /\ gens[k].consumer = "app"
          /\ gens[k].pc \in {"created", "yield_body", "yield_chunk"}
          /\ BodyStep("anext", [gen |-> k, pc |-> gens[k].pc], k,
                      body_iter_anext(conn, gens[k]))
    /\ UNCHANGED nreceived

\* The server delivers an event to the generator waiting in asgi_receive.
Receive ==
    /\ nreceived < MaxReceive
    /\ \E k \in 1..Len(gens), message \in Messages :
          /\ gens[k].pc = "receive"
          /\ LET r == body_iter_receive(conn, gens[k], message)
             IN  BodyStep("receive", [gen |-> k, message |-> message], k,
                          IF gens[k].consumer = "body"
                          THEN body_collect(r.conn, r.gen)
                          ELSE r)
    /\ nreceived' = nreceived + 1

NextBody ==
    \/ BodyIter
    \/ Body
    \/ Anext
    \/ Receive

SpecBody == InitBody /\ [][NextBody]_vars

(***************************************************************************)
(* Properties of the call-by-call machine (Spec).                          *)
(***************************************************************************)
IsStart(e) == e.type = "http.response.start"
IsBody(e) == e.type = "http.response.body"
FinalBody == [type |-> "http.response.body", body |-> <<>>, more_body |-> FALSE]

\* The events the last operation emitted.
Emitted == SubSeq(asgi_sent, last.nsent + 1, Len(asgi_sent))

\* The value of a non-empty run of decimal digits, or -1.
RECURSIVE DecimalValue(_)
DecimalValue(s) ==
    IF s = <<>> \/ s[Len(s)] < 48 \/ s[Len(s)] > 57 THEN -1
    ELSE IF Len(s) = 1 THEN s[1] - 48
    ELSE LET hi == DecimalValue(SubSeq(s, 1, Len(s) - 1))
         IN  IF hi < 0 THEN -1 ELSE 10 * hi + (s[Len(s)] - 48)

\* The number of bytes text takes on the wire (UTF-8, code points < 2048).
RECURSIVE WireLength(_)
WireLength(s) ==
    IF s = <<>> THEN 0 ELSE (IF Head(s) < 128 THEN 1 ELSE 2) + WireLength(Tail(s))

\* C1: on an HTTP connection the outbound events are always a prefix of
\* start, body(more_body = true)*, body(more_body = false): the first event
\* is the only start event, and nothing follows a body event with
\* more_body = false.
C1_EventOrder ==
    type(conn) = "HTTP" =>
        \A i \in 1..Len(asgi_sent) :
            /\ (i = 1) <=> IsStart(asgi_sent[i])
            /\ (i > 1) => IsBody(asgi_sent[i])
            /\ (i > 1 /\ ~asgi_sent[i].more_body) => i = Len(asgi_sent)

\* C1 witness: a complete response (start, a chunk, the final chunk) after
\* which a further call failed.
C1_Witness ==
    /\ type(conn) = "HTTP"
    /\ Len(asgi_sent) = 3
    /\ asgi_sent[2].more_body /\ ~asgi_sent[3].more_body
    /\ last.op \in {"send", "finish", "start_resp"}
    /\ last.exc.cls = "ValueError"

\* C2: once finished is true on an HTTP connection it stays true, and every
\* later send() or finish() raises ValueError and emits nothing.
C2_FinishedTerminal ==
    [][ (type(conn) = "HTTP" /\ conn.finished) =>
            /\ conn'.finished
            /\ (ncalls' = ncalls + 1 /\ last'.op \in {"send", "finish"}) =>
                   /\ last'.exc.cls = "ValueError"
                   /\ asgi_sent' = asgi_sent ]_vars

\* C2 witness: send() was called on a finished HTTP connection.
C2_Witness ==
    /\ type(conn) = "HTTP"
    /\ last.pre.finished
    /\ last.op = "send"
    /\ last.exc.cls = "ValueError"
    /\ conn.finished

C7_JsonContentType ==
    ( /\ type(conn) = "HTTP"
      /\ last.op = "await" /\ last.arg.cls = "JsonResponse"
      /\ last.pre = Connection(conn.scope) /\ last.nsent = 0 ) =>
        /\ Len(asgi_sent) > 0
        /\ IsStart(asgi_sent[1])
        /\ \E h \in 1..Len(asgi_sent[1].headers) :
               asgi_sent[1].headers[h] = <<TxtContentType, TxtApplicationJson>>

(***************************************************************************)
(* Properties of the composed application (SpecApp).                       *)
(***************************************************************************)
\* asgi_app returned from the end of its body, after the loop over the stages.
ReturnedAfterLoop == pc = "returned" /\ idx > Len(routers)

ContentLengthNine == <<TxtContentLength, <<57>>>>

C4_ShortCircuit ==
    /\ \A k \in 1..Len(invoked) : ~invoked[k].finished
    /\ (pc = "returned" /\ idx <= Len(routers)) =>
           /\ conn.finished
           /\ \A k \in 1..Len(invoked) : invoked[k].stage <= idx
           /\ \A i \in 1..Len(asgi_sent) :
                  (IsBody(asgi_sent[i]) /\ ~asgi_sent[i].more_body) => i = Len(asgi_sent)

\* C4 witness: the first of two stages finished the connection; asgi_app
\* returned without invoking the second.
C4_Witness ==
    /\ Len(routers) = 2
    /\ pc = "returned"
    /\ idx = 1
    /\ conn.finished
    /\ \A k \in 1..Len(invoked) : invoked[k].stage = 1

AllRouters == \A i \in 1..Len(routers) : routers[i].kind = "router"

Matching == {i \in 1..Len(routers) : match(routers[i].router, conn).outcome = "match"}

\* C5: in a chain of routers, a request an earlier router has no rule for is
\* handed to the next router: when some router of the chain matches the
\* request, the first such router's handler is invoked, and a not-found body
\* is produced only when no router matches.
C5_RouterChain ==
    (type(conn) = "HTTP" /\ AllRouters /\ pc = "returned" /\ Matching # {}) =>
        /\ \E k \in 1..Len(invoked) :
               /\ invoked[k].stage = CHOOSE i \in Matching : \A j \in Matching : i <= j
               /\ invoked[k].callee # "Router"
        /\ \A i \in 1..Len(asgi_sent) :
               IsBody(asgi_sent[i]) =>
                   asgi_sent[i].body \notin {TxtNotFoundUpper, TxtNotFoundLower}

\* C6: when asgi_app returns on an HTTP exchange the connection is finished
\* and the last outbound event is a body event with more_body = false; when
\* the stages left the response started and unfinished, the composer's
\* finish() emits exactly the final empty body event.
C6_DrivenToCompletion ==
    (type(conn) = "HTTP" /\ pc = "returned") =>
        /\ conn.finished
        /\ Len(asgi_sent) > 0
        /\ IsBody(asgi_sent[Len(asgi_sent)])
        /\ ~asgi_sent[Len(asgi_sent)].more_body
        /\ (ReturnedAfterLoop /\ last.pre.started) => Emitted = <<FinalBody>>

\* C6 witness: a stage started the response and returned; the composer
\* finished it.
C6_Witness ==
    /\ type(conn) = "HTTP"
    /\ ReturnedAfterLoop
    /\ last.pre.started
    /\ ~last.pre.finished
    /\ conn.finished
    /\ Emitted = <<FinalBody>>

\* C9: once the response has started, the connection's status code never
\* changes again.
C9_StatusImmutable ==
    [][conn.started => conn'.resp_status_code = conn.resp_status_code]_vars

(***************************************************************************)
(* Properties of the body reader (SpecBody).                               *)
(***************************************************************************)
RECURSIVE TotalLength(_)
TotalLength(chunks) ==
    IF chunks = <<>> THEN 0 ELSE Len(Head(chunks)) + TotalLength(Tail(chunks))

HasHeader(c, key) == \E i \in 1..Len(c.scope.headers) : c.scope.headers[i][1] = key

\* The request is not chunked and declares a content-length.
DeclaresLength ==
    /\ type(conn) = "HTTP"
    /\ HasHeader(conn, TxtContentLength)
    /\ ~HasHeader(conn, TxtTransferEncoding)

DeclaredLength == DecimalValue(headers_get(conn.scope.headers, TxtContentLength, <<48>>))

\* C8: for a non-chunked request declaring content-length L, the chunk that
\* takes the accumulated length over L is never yielded, and the iteration
\* that received it fails with ValueError("body is longer than declared").
C8_BodyLengthEnforced ==
    DeclaresLength =>
        \A k \in 1..Len(gens) :
            /\ TotalLength(gens[k].yielded) <= DeclaredLength
            /\ (gens[k].pc = "done" => conn.http_received_body_length <= DeclaredLength)

(***************************************************************************)
(* Further properties of one Connection (Spec).                            *)
(***************************************************************************)
\* C11: finish() on an HTTP connection that has not started sets the status
\* code to 204 whatever it was, emits the response start with status 204 and
\* then exactly one body event, empty and with more_body false, and leaves
\* the connection started and finished.
C11_FinishForces204 ==
    (type(conn) = "HTTP" /\ last.op = "finish" /\ ~last.pre.started) =>
        /\ last.exc = NoExc
        /\ conn.resp_status_code = 204
        /\ Len(Emitted) = 2
        /\ IsStart(Emitted[1]) /\ Emitted[1].status = 204
        /\ Emitted[2] = FinalBody
        /\ conn.started /\ conn.finished

\* finish() on a connection whose status code had been set to 404.
C11_Witness ==
    /\ type(conn) = "HTTP"
    /\ last.op = "finish"
    /\ ~last.pre.started
    /\ last.pre.resp_status_code = 404
    /\ conn.resp_status_code = 204
    /\ Len(asgi_sent) = 2 /\ asgi_sent[1].status = 204

(***************************************************************************)
(* Further properties of the composed application (SpecApp).               *)
(***************************************************************************)
\* asgi_app stands at stage idx, a router, which was handed a connection on
\* which nothing had been set or sent.
RouterGotFresh ==
    /\ type(conn) = "HTTP"
    /\ pc # "idle"
    /\ idx \in 1..Len(routers)
    /\ routers[idx].kind = "router"
    /\ last.op \in {"asgi_app", "return"}
    /\ last.pre = Connection(conn.scope)
    /\ last.nsent = 0

MethodRefused(R, c) ==
    LET here == {i \in 1..Len(R.url_map) : rule_matches(R.url_map[i].rule, c.scope.path)}
        slash == {i \in 1..Len(R.url_map) :
                      rule_matches(R.url_map[i].rule, c.scope.path \o <<47>>)}
        refuses(i) == /\ ~R.url_map[i].methods.none
                      /\ c.scope.method \notin R.url_map[i].methods.set
    IN  /\ here # {}
        /\ \A i \in here \cup slash : refuses(i)

ContentLengthZero == <<TxtContentLength, <<48>>>>

MaxRegs == 3        \* registrations performed on the router

RuleStrings == {TxtItems, TxtOther}
\* two functions of the same __name__, and a third one
Handlers == {Handler("f", 1), Handler("f", 2), Handler("g", 3)}
RouteNames == {"", "g"}
MethodArgs == {NoneMethods, Methods({}), Methods({"GET"}), Methods({"POST", "OPTIONS"})}

InitReg ==
    /\ conn = Connection(Scope("http", "GET", <<47>>, <<>>))
    /\ asgi_sent = <<>>
    /\ router = Router
    /\ last = NoCall(router)
    /\ ncalls = 0
    /\ AppUnused
    /\ BodyUnused
    /\ ConcUnused

\* The registration `op` with arguments `arg` made R of the router.
Registered(op, arg, R) ==
    /\ router' = [R EXCEPT !.exc = NoExc]
    /\ last' = [op |-> op, arg |-> arg, exc |-> R.exc, pre |-> router, nsent |-> 0]
    /\ ncalls' = ncalls + 1
    /\ UNCHANGED <<conn, asgi_sent, routers, pc, idx, invoked, gens, nreceived, tasks>>

\* router.add_route(rule_string, handler, name, methods)
AddRoute ==
    /\ ncalls < MaxRegs
    /\ \E rs \in RuleStrings, h \in Handlers, n \in RouteNames, ms \in {NoneMethods} :
          Registered("add_route",
                     [rule_string |-> rs, handler |-> h, name |-> n, methods |-> ms],
                     add_route(router, rs, h, n, ms))

\* router.route(rule, methods, name)(handler)
Route ==
    /\ ncalls < MaxRegs
    /\ \E rs \in {TxtItems}, h \in Handlers, n \in {""}, ms \in MethodArgs :
          Registered("route",
                     [rule_string |-> rs, handler |-> h, name |-> n, methods |-> ms],
                     route(router, rs, ms, n, h))

NextReg ==
    \/ AddRoute
    \/ Route

SpecReg == InitReg /\ [][NextReg]_vars

(***************************************************************************)
(* Properties of registration (SpecReg).                                   *)
(***************************************************************************)
\* The name the last registration was made under.
RouteName == IF last.arg.name = "" THEN last.arg.handler.name ELSE last.arg.name

IsRegistration == last.op \in {"add_route", "route"}

\* The last registration found its name bound to another handler object.
NameTaken ==
    /\ IsRegistration
    /\ RouteName \in DOMAIN last.pre.endpoint_to_handler
    /\ last.pre.endpoint_to_handler[RouteName].id # last.arg.handler.id

\* The last registration found its name bound to the very same handler.
SameAgain ==
    /\ IsRegistration
    /\ RouteName \in DOMAIN last.pre.endpoint_to_handler
    /\ last.pre.endpoint_to_handler[RouteName].id = last.arg.handler.id

\* C14: a registration under a name bound to a different handler object
\* fails with ValueError and leaves the pattern map and the name-to-handler
\* map unchanged; and a bound name stays bound to the same handler through
\* every registration.
C14_ConflictRejected ==
    /\ [](NameTaken =>
            /\ last.exc.cls = "ValueError"
            /\ router.url_map = last.pre.url_map
            /\ router.endpoint_to_handler = last.pre.endpoint_to_handler)
    /\ [][\A n \in DOMAIN router.endpoint_to_handler :
              /\ n \in DOMAIN router'.endpoint_to_handler
              /\ router'.endpoint_to_handler[n] = router.endpoint_to_handler[n]]_vars

\* C14 witness: a second function named f was refused after the first.
C14_Witness ==
    /\ NameTaken
    /\ last.exc.cls = "ValueError"
    /\ Len(router.url_map) = 1
    /\ DOMAIN router.endpoint_to_handler = {"f"}
    /\ router.endpoint_to_handler["f"] = Handler("f", 1)
    /\ last.arg.handler = Handler("f", 2)

C16_OptionsAlways ==
    (last.op = "route" /\ last.exc = NoExc) =>
        LET r == router.url_map[Len(router.url_map)]
        IN  IF last.arg.methods.none
            THEN r.methods.none
            ELSE ~r.methods.none /\ "OPTIONS" \in r.methods.set

(***************************************************************************)
(* Further properties of the body reader (SpecBody).                       *)
(***************************************************************************)
\* The last step began a body iteration: the first __anext__ of a generator
\* of body_iter(), or a call of body().
BeganIteration ==
    /\ type(conn) = "HTTP"
    /\ last.op \in {"anext", "body"}
    /\ last.arg.pc = "created"

\* Before the last step another iteration had received a body event, and more
\* body was still expected.
InProgress ==
    /\ last.pre.http_has_more_body
    /\ \E j \in 1..Len(gens) : j # last.arg.gen /\ gens[j].yielded # <<>>

\* C17: a body iteration begun while a previous one has received events and
\* more body is expected fails with ValueError, whatever the sizes of the
\* chunks received so far, and does not get to asgi_receive.
C17_RestartRefused ==
    (BeganIteration /\ InProgress) =>
        /\ gens[last.arg.gen].pc = "raised"
        /\ last.exc.cls = "ValueError"

\* The body had been received in full before the last step.
Complete == type(conn) = "HTTP" /\ ~last.pre.http_has_more_body

\* C18: once the body has been received in full, an iteration begun then
\* does not get to asgi_receive and yields nothing but the buffered body, at
\* most once; it leaves the connection as it was; and what body() returns is
\* the buffered body, on every call.
C18_BufferedBody ==
    /\ (Complete /\ last.op \in {"anext", "body"} /\ last.arg.pc \in {"created", "yield_body"}) =>
           LET g == gens[last.arg.gen]
           IN  /\ conn = last.pre
               /\ g.pc \in {"yield_body", "done"}
               /\ g.yielded \in {<<>>, <<conn.http_body>>}
               /\ (g.yielded = <<>> => conn.http_body = <<>>)
               /\ (last.op = "body" => g.pc = "done")
    /\ \A k \in 1..Len(gens) :
           (gens[k].consumer = "body" /\ gens[k].pc = "done") => body(gens[k]) = conn.http_body

\* C18 witness: the second body() call after a body of two chunks.
C18_Witness ==
    /\ Complete
    /\ last.op = "body"
    /\ Len(gens) = 2
    /\ gens[1].consumer = "body" /\ gens[1].pc = "done" /\ Len(gens[1].yielded) = 2
    /\ gens[2].pc = "done"
    /\ gens[2].yielded = <<conn.http_body>>
    /\ Len(conn.http_body) = 5
    /\ nreceived = 2

(***************************************************************************)
(* WebSocket connections (Spec).                                           *)
(***************************************************************************)
WebSocketCall == type(conn) = "WebSocket" /\ last.op \in {"send", "finish"}

\* C19 as stated: on a WebSocket connection every send() and finish() fails
\* with NotImplementedError, emits nothing, and leaves started and finished
\* false.
C19_WebSocketLeavesFalse ==
    WebSocketCall =>
        /\ last.exc.cls = "NotImplementedError"
        /\ Emitted = <<>>
        /\ ~conn.started
        /\ ~conn.finished

\* C19 amended: on a WebSocket connection every send() and finish() fails
\* with NotImplementedError, emits nothing and leaves the connection, started
\* and finished included, as it was; and a WebSocket connection is never
\* finished.
C19_WebSocketUnimplemented ==
    /\ WebSocketCall =>
           /\ last.exc.cls = "NotImplementedError"
           /\ Emitted = <<>>
           /\ conn = last.pre
    /\ type(conn) = "WebSocket" => ~conn.finished

\* C19 witness: finish() refused on a WebSocket connection on which
\* start_resp() had been called.
C19_Witness ==
    /\ WebSocketCall
    /\ last.op = "finish"
    /\ last.exc.cls = "NotImplementedError"
    /\ last.pre.started
    /\ conn.started /\ ~conn.finished
    /\ Len(asgi_sent) = 1

(***************************************************************************)
(* The state machine, part 5: coroutines calling send() on one connection  *)
(* concurrently.  A coroutine runs from one await of asgi_send to the next *)
(* without interruption; at the await the event is with the server and any *)
(* coroutine may run next.                                                 *)
(***************************************************************************)
MaxTasks == 2       \* coroutines calling send() on the connection

\* A coroutine about to call conn.send(data, finish=fin).
Task(data, fin) == [pc |-> "call", data |-> data, fin |-> fin, exc |-> NoExc]

\* The coroutine t got to the await named by `at`, or raised.
Suspended(W, t, at) ==
    [ W |-> [W EXCEPT !.exc = NoExc],
      task |-> IF Ok(W) THEN [t EXCEPT !.pc = at]
               ELSE [t EXCEPT !.pc = "raised", !.exc = W.exc] ]

\* start_resp as far as its await of asgi_send (lines 177-199).
start_resp_await(W) ==
    IF W.conn.started
    THEN raise(W, "ValueError", "resp already started")
    ELSE LET W1 == IF W.conn.resp_status_code = None
                   THEN [W EXCEPT !.conn.resp_status_code = 200]
                   ELSE W
         IN  asgi_send(W1, [ type |-> "http.response.start",
                             status |-> W1.conn.resp_status_code,
                             headers |-> start_resp_headers(W1.conn) ])

\* _http_send lines 140-146: the body event, as far as its await.
http_send_body(W, t) ==
    Suspended(asgi_send(W, [ type |-> "http.response.body",
                             body |-> t.data,
                             more_body |-> TRUE ]),
              t, "body_sent")

\* finish as far as its first await.
finish_call(W, t) ==
    IF type(W.conn) = "HTTP"
    THEN IF W.conn.finished
         THEN Suspended(raise(W, "ValueError", "Connection already finished"), t, "")
         ELSE IF ~W.conn.started
         THEN Suspended(start_resp_await([W EXCEPT !.conn.resp_status_code = 204]),
                        t, "finish_start_sent")
         ELSE Suspended(asgi_send(W, FinalBody), t, "final_sent")
    ELSE Suspended(raise(W, "NotImplementedError", ""), t, "")

\* send, and _http_send inside it, as far as the first await.
send_call(W, t) ==
    IF W.conn.finished
    THEN Suspended(raise(W, "ValueError", "No message can be sent when connection closed"),
                   t, "")
    ELSE IF type(W.conn) = "HTTP"
    THEN LET data == IF t.data.t = "str" THEN encode(t.data.v) ELSE t.data.v
             t1 == [t EXCEPT !.data = data]
         IN  IF ~W.conn.started
             THEN Suspended(start_resp_await(
                                IF t.fin
                                THEN put_resp_header(W, TxtContentLength, str(Len(data)))
                                ELSE W),
                            t1, "start_sent")
             ELSE http_send_body(W, t1)
    ELSE Suspended(raise(W, "NotImplementedError", ""), t, "")

\* The awaited asgi_send returned: the coroutine goes on to its next await or
\* to its end.
send_resume(W, t) ==
    IF t.pc = "start_sent"
    THEN http_send_body([W EXCEPT !.conn.started = TRUE], t)
    ELSE IF t.pc = "body_sent"
    THEN IF t.fin THEN finish_call(W, t) ELSE Suspended(W, t, "done")
    ELSE IF t.pc = "finish_start_sent"
    THEN Suspended(asgi_send([W EXCEPT !.conn.started = TRUE], FinalBody), t, "final_sent")
    ELSE Suspended([W EXCEPT !.conn.finished = TRUE], t, "done")

ConcData == {Bytes(<<97, 98>>), Str(<<233>>)}

RECURSIVE TaskLists(_)
TaskLists(n) ==
    IF n = 0 THEN {<<>>}
    ELSE {Append(l, Task(d, f)) : l \in TaskLists(n - 1), d \in ConcData, f \in BOOLEAN}

InitConc ==
    /\ conn = Connection(Scope("http", "GET", <<47>>, <<>>))
    /\ asgi_sent = <<>>
    /\ last = NoCall(conn)
    /\ ncalls = 0
    /\ tasks \in TaskLists(MaxTasks)
    /\ AppUnused
    /\ BodyUnused
    /\ RegUnused

\* Coroutine i ran as far as r.
TaskStep(op, i, r) ==
    /\ conn' = r.W.conn
    /\ asgi_sent' = r.W.sent
    /\ tasks' = [tasks EXCEPT ![i] = r.task]
    /\ last' = [op |-> op, arg |-> i, exc |-> r.task.exc, pre |-> conn, nsent |-> Len(asgi_sent)]
    /\ ncalls' = ncalls + 1
    /\ UNCHANGED <<routers, pc, idx, invoked, gens, nreceived, router>>

\* A coroutine calls conn.send(data, finish=fin).
CallSend ==
    \E i \in 1..Len(tasks) :
        /\ tasks[i].pc = "call"
        /\ TaskStep("send", i, send_call(World, tasks[i]))

\* The event loop resumes a coroutine suspended in asgi_send.
ResumeSend ==
    \E i \in 1..Len(tasks) :
        /\ tasks[i].pc \in {"start_sent", "body_sent", "finish_start_sent", "final_sent"}
        /\ TaskStep("resume", i, send_resume(World, tasks[i]))

NextConc ==
    \/ CallSend
    \/ ResumeSend

SpecConc == InitConc /\ [][NextConc]_vars

(***************************************************************************)
(* Properties of concurrent sends (SpecConc).                              *)
(***************************************************************************)
StartEvents == {i \in 1..Len(asgi_sent) : IsStart(asgi_sent[i])}

\* C20: with coroutines calling send() concurrently on a fresh HTTP
\* connection, interleaved at the awaits of asgi_send, at most one
\* http.response.start event is emitted.
C20_SingleStart == Cardinality(StartEvents) <= 1

====
